---- MODULE Spec2Model ----
(***************************************************************************)
(* A model of src/Main.py: the task/project store (DatabaseManager, a      *)
(* SQLite file with the tables tasks and projects), and the handlers of    *)
(* ProductivityApp that call it (task and project dialogs, status change,  *)
(* delete, filter/search, import, export).                                 *)
(*                                                                         *)
(* Text is a sequence of one-character strings, so that strip(), lower()   *)
(* and Python's substring test `in` are computed.  An SQL/Python value     *)
(* that may be NULL/None is None == <<>> or Some(v) == <<v>>.              *)
(***************************************************************************)
EXTENDS Integers, Sequences, FiniteSets, TLC

\* Bounds of the model.
MaxTasks == 2        \* task rows inserted in one run
MaxProjects == 1     \* project rows inserted in one run
MaxClock == 1        \* seconds the wall clock advances in one run
MaxExportProjects == 2  \* project rows of a store, where the store is exported

VARIABLES
  db,                 \* the SQLite file: tasks, projects, sqlite_sequence
  clock,              \* wall clock, in seconds
  tasks_tree,         \* the ids of the rows shown in the tasks Treeview, in order
  status_filter_var,  \* the status combobox
  search_var,         \* the search entry
  import_queue,       \* the records import_data has still to insert
  importing,          \* TRUE while import_data runs its loops
  task_ids_returned,  \* history: every id add_task has returned, in order
  project_ids_returned, \* history: every id add_project has returned, in order
  import_message,     \* the message box the last import_data has shown, if any
  db_path,            \* the file DatabaseManager.db_path resolves to
  export_file,        \* the document export_data has written, if any
  exported_db         \* history: the store export_data read for export_file

\* What only export_data and a start on another database file change
export_vars == <<db_path, export_file, exported_db>>

vars == <<db, clock, tasks_tree, status_filter_var, search_var, import_queue,
          importing, task_ids_returned, project_ids_returned, import_message,
          export_vars>>

---------------------------------------------------------------------------
\* Values

None == <<>>
Some(x) == <<x>>
Val(o) == o[1]

\* Python's `x or ''` on a text that may be None.
OrEmpty(o) == IF o = None THEN <<>> ELSE Val(o)

\* dict.get(key, default)
Get(rec, key, default) == IF key \in DOMAIN rec THEN rec[key] ELSE default

Max(S) == CHOOSE x \in S : \A y \in S : y <= x

RECURSIVE Perms(_)
Perms(S) ==
  IF S = {} THEN {<<>>}
  ELSE UNION {{<<x>> \o p : p \in Perms(S \ {x})} : x \in S}

\* str.lower(), on the alphabet of the model
LowerChar(c) == CASE c = "A" -> "a" [] c = "B" -> "b" [] c = "Z" -> "z" [] OTHER -> c
lower(s) == [i \in 1..Len(s) |-> LowerChar(s[i])]

\* str.strip()
IsSpace(c) == c = " "
RECURSIVE lstrip(_)
lstrip(s) == IF s # <<>> /\ IsSpace(Head(s)) THEN lstrip(Tail(s)) ELSE s
RECURSIVE rstrip(_)
rstrip(s) ==
  IF s # <<>> /\ IsSpace(s[Len(s)]) THEN rstrip(SubSeq(s, 1, Len(s) - 1)) ELSE s
strip(s) == rstrip(lstrip(s))

\* Python's `needle in hay` on str
Contains(needle, hay) ==
  \E i \in 0..(Len(hay) - Len(needle)) : SubSeq(hay, i + 1, i + Len(needle)) = needle

\* datetime.datetime.strptime(due_date, '%Y-%m-%d') succeeds
strptime_ok(due_date) == due_date \in {"2025-01-31"}

Statuses == {"todo", "in_progress", "completed"}

\* Where DatabaseManager.db_path ("productivity_app.db", relative) may resolve to
OriginalPath == "productivity_app.db"
OtherPath == "elsewhere/productivity_app.db"

---------------------------------------------------------------------------
\* DatabaseManager

\* init_database on a new file: two empty tables, no sqlite_sequence rows
init_database ==
  [tasks |-> {}, projects |-> {}, seq_tasks |-> 0, seq_projects |-> 0]

\* INTEGER PRIMARY KEY, without AUTOINCREMENT: one more than the largest rowid in the table
rowid_max_plus_one(seq, rows) == IF rows = {} THEN 1 ELSE Max({r.id : r \in rows}) + 1

\* INTEGER PRIMARY KEY AUTOINCREMENT: one more than the largest rowid the table
\* has ever held (sqlite_sequence.seq)
autoincrement(seq, rows) == Max({seq} \cup {r.id : r \in rows}) + 1

\* An add_task that binds description and category in the wrong order
add_task_swaps_columns(d, title, description, category, project_id, due_date, priority, now) ==
  IF title = None
  THEN [db |-> d, lastrowid |-> None, raised |-> TRUE]
  ELSE LET id == Max({d.seq_tasks} \cup {r.id : r \in d.tasks}) + 1
           row == [id |-> id, title |-> title, description |-> category,
                   category |-> description, project_id |-> project_id,
                   status |-> "todo", priority |-> priority, due_date |-> due_date,
                   created_date |-> now, completed_date |-> None]
       IN [db |-> [d EXCEPT !.tasks = @ \cup {row}, !.seq_tasks = id],
           lastrowid |-> Some(id), raised |-> FALSE]

\* An add_task on a table with UNIQUE(title), inserting with INSERT OR REPLACE
add_task_or_replace(d, title, description, category, project_id, due_date, priority, now) ==
  IF title = None
  THEN [db |-> d, lastrowid |-> None, raised |-> TRUE]
  ELSE LET id == Max({d.seq_tasks} \cup {r.id : r \in d.tasks}) + 1
           row == [id |-> id, title |-> title, description |-> description,
                   category |-> category, project_id |-> project_id,
                   status |-> "todo", priority |-> priority, due_date |-> due_date,
                   created_date |-> now, completed_date |-> None]
       IN [db |-> [d EXCEPT !.tasks = {t \in @ : t.title # title} \cup {row},
                            !.seq_tasks = id],
           lastrowid |-> Some(id), raised |-> FALSE]

\* An add_task on a table whose status column is DEFAULT 'pending'
add_task_default_pending(d, title, description, category, project_id, due_date, priority, now) ==
  IF title = None
  THEN [db |-> d, lastrowid |-> None, raised |-> TRUE]
  ELSE LET id == Max({d.seq_tasks} \cup {r.id : r \in d.tasks}) + 1
           row == [id |-> id, title |-> title, description |-> description,
                   category |-> category, project_id |-> project_id,
                   status |-> "pending", priority |-> priority, due_date |-> due_date,
                   created_date |-> now, completed_date |-> None]
       IN [db |-> [d EXCEPT !.tasks = @ \cup {row}, !.seq_tasks = id],
           lastrowid |-> Some(id), raised |-> FALSE]

\* An add_task on a table whose completed_date column is DEFAULT CURRENT_TIMESTAMP
add_task_dates_completion(d, title, description, category, project_id, due_date, priority, now) ==
  IF title = None
  THEN [db |-> d, lastrowid |-> None, raised |-> TRUE]
  ELSE LET id == Max({d.seq_tasks} \cup {r.id : r \in d.tasks}) + 1
           row == [id |-> id, title |-> title, description |-> description,
                   category |-> category, project_id |-> project_id,
                   status |-> "todo", priority |-> priority, due_date |-> due_date,
                   created_date |-> now, completed_date |-> Some(now)]
       IN [db |-> [d EXCEPT !.tasks = @ \cup {row}, !.seq_tasks = id],
           lastrowid |-> Some(id), raised |-> FALSE]

\* add_task: INSERT INTO tasks; title is NOT NULL (sqlite3.IntegrityError), status
\* and completed_date take the column defaults, created_date is CURRENT_TIMESTAMP.
add_task(d, title, description, category, project_id, due_date, priority, now) ==
  IF title = None
  THEN [db |-> d, lastrowid |-> None, raised |-> TRUE]
  ELSE LET id == autoincrement(d.seq_tasks, d.tasks)
           row == [id |-> id, title |-> title, description |-> description,
                   category |-> category, project_id |-> project_id,
                   status |-> "todo", priority |-> priority, due_date |-> due_date,
                   created_date |-> now, completed_date |-> None]
       IN [db |-> [d EXCEPT !.tasks = @ \cup {row}, !.seq_tasks = id],
           lastrowid |-> Some(id), raised |-> FALSE]

\* A row of SELECT t.*, p.name as project_name
task_row(t, project_name) ==
  [id |-> t.id, title |-> t.title, description |-> t.description,
   category |-> t.category, project_id |-> t.project_id, status |-> t.status,
   priority |-> t.priority, due_date |-> t.due_date,
   created_date |-> t.created_date, completed_date |-> t.completed_date,
   project_name |-> project_name]

\* tasks JOIN projects (an inner join): a task that matches no project has no row
task_inner_join(d) ==
  {task_row(x[1], x[2].name) :
     x \in {y \in d.tasks \X d.projects :
              y[1].project_id # None /\ Val(y[1].project_id) = y[2].id}}

\* The LEFT JOIN with WHERE t.project_id IS NULL OR p.id IS NOT NULL: a task whose
\* project_id matches no project has no row
task_join_drops_dangling(d) ==
  UNION {
    LET ps == {p \in d.projects : t.project_id # None /\ Val(t.project_id) = p.id}
    IN IF ps = {}
       THEN IF t.project_id = None THEN {task_row(t, None)} ELSE {}
       ELSE {task_row(t, p.name) : p \in ps}
    : t \in d.tasks}

\* The rows of tasks LEFT JOIN projects ON t.project_id = p.id: one per matching
\* project, and one with project_name NULL for a task that matches none.
task_join(d) ==
  UNION {
    LET ps == {p \in d.projects : t.project_id # None /\ Val(t.project_id) = p.id}
    IN IF ps = {}
       THEN {task_row(t, None)}
       ELSE {task_row(t, p.name) : p \in ps}
    : t \in d.tasks}

\* ORDER BY created_date DESC: every order of the rows in which no row comes
\* before one with a later created_date (SQL leaves the order of ties open).
order_by_created_desc(rows) ==
  {s \in Perms(rows) :
     \A i, j \in 1..Len(s) : i < j => s[i].created_date >= s[j].created_date}

\* get_tasks(status, project_id): the results the query may return.  `if status:`
\* and `if project_id:` add the conditions only for a truthy argument.
get_tasks(d, status, project_id) ==
  LET truthy_status == status # None /\ Val(status) # ""
      truthy_project == project_id # None /\ Val(project_id) # 0
      rows == {r \in task_join(d) :
                 /\ truthy_status => r.status = Val(status)
                 /\ truthy_project =>
                      (r.project_id # None
                       /\ Val(r.project_id) = Val(project_id))}
  IN order_by_created_desc(rows)

\* An update_task_status that sets completed_date on completion and forgets to
\* clear it otherwise
update_task_status_keeps_date(d, task_id, status, now) ==
  [d EXCEPT !.tasks =
     {IF t.id = task_id
      THEN [t EXCEPT !.status = status,
                     !.completed_date = IF status = "completed" THEN Some(now) ELSE @]
      ELSE t : t \in @}]

\* An update_task_status that stamps completed_date whatever the new status
update_task_status_always_dates(d, task_id, status, now) ==
  [d EXCEPT !.tasks =
     {IF t.id = task_id
      THEN [t EXCEPT !.status = status, !.completed_date = Some(now)]
      ELSE t : t \in @}]

\* An update_task_status whose UPDATE has no WHERE clause
update_task_status_every_row(d, task_id, status, now) ==
  [d EXCEPT !.tasks =
     {[t EXCEPT !.status = status,
                !.completed_date = IF status = "completed" THEN Some(now) ELSE None]
      : t \in @}]

\* An update_task_status that also sets created_date to the time of the update
update_task_status_stamps_created(d, task_id, status, now) ==
  [d EXCEPT !.tasks =
     {IF t.id = task_id
      THEN [t EXCEPT !.status = status,
                     !.completed_date = IF status = "completed" THEN Some(now) ELSE None,
                     !.created_date = now]
      ELSE t : t \in @}]

\* update_task_status: UPDATE tasks SET status, completed_date WHERE id = task_id
update_task_status(d, task_id, status, now) ==
  LET completed_date == IF status = "completed" THEN Some(now) ELSE None
  IN [d EXCEPT !.tasks =
        {IF t.id = task_id
         THEN [t EXCEPT !.status = status, !.completed_date = completed_date]
         ELSE t : t \in @}]

\* A delete_task whose DELETE is never committed
delete_task_not_committed(d, task_id) == d

\* delete_task: DELETE FROM tasks WHERE id = task_id
delete_task(d, task_id) == [d EXCEPT !.tasks = {t \in @ : t.id # task_id}]

\* add_project: INSERT INTO projects; name is NOT NULL, status defaults to 'active'.
add_project(d, name, description, due_date, now) ==
  IF name = None
  THEN [db |-> d, lastrowid |-> None, raised |-> TRUE]
  ELSE LET id == autoincrement(d.seq_projects, d.projects)
           row == [id |-> id, name |-> name, description |-> description,
                   status |-> "active", created_date |-> now, due_date |-> due_date]
       IN [db |-> [d EXCEPT !.projects = @ \cup {row}, !.seq_projects = id],
           lastrowid |-> Some(id), raised |-> FALSE]

\* The rows of projects LEFT JOIN tasks ON p.id = t.project_id for project p:
\* one per task of the project, and one all-NULL task side when it has none.
project_join(d, p) ==
  LET ts == {t \in d.tasks : t.project_id # None /\ Val(t.project_id) = p.id}
  IN IF ts = {} THEN {[t_id |-> None, t_status |-> None]}
     ELSE {[t_id |-> Some(t.id), t_status |-> Some(t.status)] : t \in ts}

\* COUNT(*): the rows of the group
count_star(group) == Cardinality(group)

\* COUNT(t.id): the rows of the group whose t.id is not NULL
count_task_id(group) == Cardinality({g \in group : g.t_id # None})

\* COUNT(CASE WHEN t.status = 'completed' THEN 1 END)
count_completed(group) ==
  Cardinality({g \in group : g.t_status # None /\ Val(g.t_status) = "completed"})

\* get_projects(): every project with total_tasks and completed_tasks, GROUP BY
\* p.id ORDER BY p.created_date DESC; the results the query may return.
get_projects(d) ==
  LET rows == {[id |-> p.id, name |-> p.name, description |-> p.description,
                status |-> p.status, created_date |-> p.created_date,
                due_date |-> p.due_date,
                total_tasks |-> count_task_id(project_join(d, p)),
                completed_tasks |-> count_completed(project_join(d, p))]
               : p \in d.projects}
  IN order_by_created_desc(rows)

\* A category query without its WHERE clause
category_is_any(t) == TRUE

\* WHERE category != '': NULL != '' is NULL, so a NULL category is left out as well
category_not_empty(t) == t.category # None /\ Val(t.category) # <<>>

\* SELECT col, COUNT(*) FROM rows GROUP BY col, as the dict of (col, count) pairs
group_count(keys, rows) ==
  [k \in {keys[i] : i \in DOMAIN keys} |->
     Cardinality({i \in DOMAIN keys : keys[i] = k /\ i \in rows})]

\* get_task_statistics: the three dicts
get_task_statistics(d) ==
  LET ids == {t.id : t \in d.tasks}
      row(i) == CHOOSE t \in d.tasks : t.id = i
      with_category == {i \in ids : category_not_empty(row(i))}
  IN [status |-> group_count([i \in ids |-> row(i).status], ids),
      category |-> group_count([i \in with_category |-> row(i).category],
                               with_category),
      priority |-> group_count([i \in ids |-> row(i).priority], ids)]

---------------------------------------------------------------------------
\* Inputs

T_empty == <<>>
T_space == <<" ">>
T_Ab == <<"A", "b">>
T_x_padded == <<" ", "x">>
T_x == <<"x">>
T_a == <<"a">>
T_B == <<"B">>
T_P_padded == <<"P", " ">>

\* What the user leaves in the widgets of TaskDialog when pressing Save
TaskForms ==
  { [title |-> T_space, description |-> T_empty, category |-> T_empty,
     priority |-> "medium", due_date |-> ""],
    [title |-> T_Ab, description |-> T_empty, category |-> T_empty,
     priority |-> "medium", due_date |-> ""],
    [title |-> T_x_padded, description |-> T_a, category |-> T_B,
     priority |-> "high", due_date |-> "2025-01-31"],
    [title |-> T_a, description |-> T_empty, category |-> T_empty,
     priority |-> "low", due_date |-> "31/01/2025"] }

\* What the user leaves in the widgets of ProjectDialog when pressing Save
ProjectForms ==
  { [name |-> T_space, description |-> T_empty, due_date |-> ""],
    [name |-> T_P_padded, description |-> T_empty, due_date |-> "2025-01-31"] }

\* What the user may type in the search entry
SearchTerms == {T_empty, T_a, T_B}

StatusFilters == {"All"} \cup Statuses

\* The JSON documents the user may choose in import_data (None: json.load fails)
Documents ==
  { None,
    Some([projects |-> <<[name |-> Some(T_empty)]>>,
          tasks |-> <<[title |-> Some(T_empty)]>>]),
    Some([tasks |-> <<[title |-> Some(T_Ab), description |-> None,
                       category |-> None,
                       project_id |-> Some(1), priority |-> Some("high"),
                       status |-> Some("completed")],
                      [description |-> Some(T_a)]>>]),
    Some([tasks |-> <<[title |-> Some(T_Ab)]>>]) }

---------------------------------------------------------------------------
\* TaskDialog, ProjectDialog

\* TaskDialog.save, lines 307-314: the id of the first project of get_projects()
\* with the chosen name; None for the combobox entry 'None'
project_id_of(project_name, projects) ==
  IF project_name = None THEN None
  ELSE LET hits == {i \in 1..Len(projects) : projects[i].name = project_name}
       IN IF hits = {} THEN None
          ELSE Some(projects[CHOOSE i \in hits : \A j \in hits : i <= j].id)

\* TaskDialog.save: dialog.result, None when the dialog refuses the form
TaskDialog_save(form, project_name, projects) ==
  LET title == strip(form.title)
      due_date == form.due_date
  IN IF title = <<>> THEN None
     ELSE IF due_date # "" /\ ~strptime_ok(due_date) THEN None
     ELSE Some([title |-> title,
                description |-> strip(form.description),
                category |-> strip(form.category),
                priority |-> form.priority,
                project_id |-> project_id_of(project_name, projects),
                due_date |-> IF due_date # "" THEN Some(due_date) ELSE None])

\* ProjectDialog.save: dialog.result, None when the dialog refuses the form
ProjectDialog_save(form) ==
  LET name == strip(form.name)
      due_date == form.due_date
  IN IF name = <<>> THEN None
     ELSE IF due_date # "" /\ ~strptime_ok(due_date) THEN None
     ELSE Some([name |-> name,
                description |-> strip(form.description),
                due_date |-> IF due_date # "" THEN Some(due_date) ELSE None])

---------------------------------------------------------------------------
\* ProductivityApp

\* A search condition that leaves the category out
search_matches_no_category(search_text, r) ==
  \/ Contains(search_text, lower(Val(r.title)))
  \/ Contains(search_text, lower(OrEmpty(r.description)))

\* filter_tasks, lines 752-755: the search condition on one row of get_tasks
search_matches(search_text, r) ==
  \/ Contains(search_text, lower(Val(r.title)))
  \/ Contains(search_text, lower(OrEmpty(r.description)))
  \/ Contains(search_text, lower(OrEmpty(r.category)))

\* filter_tasks: the lists it may hand to populate_tasks_tree
filter_tasks(d, status_filter, search) ==
  LET search_text == lower(search)
      status == IF status_filter = "All" THEN None ELSE Some(status_filter)
  IN {IF search_text # <<>>
      THEN SelectSeq(tasks, LAMBDA r : search_matches(search_text, r))
      ELSE tasks
      : tasks \in get_tasks(d, status, None)}

\* populate_tasks_tree: one tree row per task, in order; the model keeps the ID column
populate_tasks_tree(tasks) == [i \in 1..Len(tasks) |-> tasks[i].id]

\* populate_tasks_tree, lines 838-852: the values of the tree row of one task
\* (created_date[:10] is the day of the timestamp; the model keeps its seconds)
tree_values(task) ==
  [id |-> task.id,
   title |-> task.title,
   category |-> OrEmpty(task.category),
   project_name |-> OrEmpty(Get(task, "project_name", Some(T_empty))),
   priority |-> task.priority,
   status |-> task.status,
   due_date |-> IF task.due_date # None THEN Val(task.due_date) ELSE "",
   created_date |-> task.created_date]

\* refresh_tasks
refresh_tasks(d) ==
  \E tasks \in filter_tasks(d, status_filter_var, search_var) :
    tasks_tree' = populate_tasks_tree(tasks)

tree_ids == {tasks_tree[i] : i \in 1..Len(tasks_tree)}

Init ==
  /\ db = init_database
  /\ clock = 0
  /\ tasks_tree = <<>>
  /\ status_filter_var = "All"
  /\ search_var = <<>>
  /\ import_queue = <<>>
  /\ importing = FALSE
  /\ task_ids_returned = <<>>
  /\ project_ids_returned = <<>>
  /\ import_message = None
  /\ db_path = OriginalPath
  /\ export_file = None
  /\ exported_db = init_database

\* The wall clock advances by a second
Tick ==
  /\ clock < MaxClock
  /\ clock' = clock + 1
  /\ UNCHANGED <<export_vars, import_message, db, tasks_tree, status_filter_var,
                 search_var, import_queue, importing, task_ids_returned,
                 project_ids_returned>>

\* ProductivityApp.add_task: the dialog, then add_task and refresh_tasks
App_add_task ==
  /\ ~importing
  /\ db.seq_tasks < MaxTasks
  /\ \E form \in TaskForms, projects \in get_projects(db) :
       \E project_name \in {None} \cup {projects[i].name : i \in 1..Len(projects)} :
         LET result == TaskDialog_save(form, project_name, projects)
         IN IF result = None
            THEN UNCHANGED vars
            ELSE LET a == Val(result)
                     r == add_task(db, Some(a.title), Some(a.description),
                                   Some(a.category), a.project_id, a.due_date,
                                   Some(a.priority), clock)
                 IN /\ db' = r.db
                    /\ task_ids_returned' = Append(task_ids_returned, Val(r.lastrowid))
                    /\ refresh_tasks(r.db)
                    /\ UNCHANGED <<export_vars, import_message, clock,
                                   status_filter_var, search_var, import_queue,
                                   importing, project_ids_returned>>

\* ProductivityApp.delete_task on a selected tree row, confirmed
App_delete_task ==
  /\ ~importing
  /\ \E task_id \in tree_ids :
       /\ db' = delete_task(db, task_id)
       /\ refresh_tasks(delete_task(db, task_id))
  /\ UNCHANGED <<export_vars, import_message, clock, status_filter_var, search_var,
                 import_queue, importing, task_ids_returned, project_ids_returned>>

\* ProductivityApp.change_task_status on a selected tree row (context menu)
App_change_task_status ==
  /\ ~importing
  /\ \E task_id \in tree_ids, status \in Statuses :
       /\ db' = update_task_status(db, task_id, status, clock)
       /\ refresh_tasks(update_task_status(db, task_id, status, clock))
  /\ UNCHANGED <<export_vars, import_message, clock, status_filter_var, search_var,
                 import_queue, importing, task_ids_returned, project_ids_returned>>

\* ProductivityApp.add_project: the dialog, then add_project (refresh_projects
\* redraws the projects tree, which always lists every project)
add_project_dialog(cap) ==
  /\ ~importing
  /\ db.seq_projects < cap
  /\ \E form \in ProjectForms :
       LET result == ProjectDialog_save(form)
       IN IF result = None
          THEN UNCHANGED vars
          ELSE LET a == Val(result)
                   r == add_project(db, Some(a.name), Some(a.description),
                                    a.due_date, clock)
               IN /\ db' = r.db
                  /\ project_ids_returned' =
                       Append(project_ids_returned, Val(r.lastrowid))
                  /\ UNCHANGED <<export_vars, import_message, clock, tasks_tree,
                                 status_filter_var, search_var, import_queue,
                                 importing, task_ids_returned>>

\* ProductivityApp.add_project, on a store of fewer than MaxProjects projects
App_add_project == add_project_dialog(MaxProjects)

\* view_project_tasks on a selected row of the projects tree
view_project_tasks ==
  /\ ~importing
  /\ \E p \in db.projects :
       /\ status_filter_var' = "All"
       /\ search_var' = <<>>
       /\ \E tasks \in get_tasks(db, None, Some(p.id)) :
            tasks_tree' = populate_tasks_tree(tasks)
  /\ UNCHANGED <<export_vars, import_message, db, clock, import_queue, importing,
                 task_ids_returned, project_ids_returned>>

\* The status combobox: <<ComboboxSelected>> runs filter_tasks
SelectStatusFilter ==
  /\ ~importing
  /\ \E s \in StatusFilters :
       /\ status_filter_var' = s
       /\ \E tasks \in filter_tasks(db, s, search_var) :
            tasks_tree' = populate_tasks_tree(tasks)
  /\ UNCHANGED <<export_vars, import_message, db, clock, search_var, import_queue,
                 importing, task_ids_returned, project_ids_returned>>

\* The search entry: <KeyRelease> runs filter_tasks
TypeSearch ==
  /\ ~importing
  /\ \E term \in SearchTerms :
       /\ search_var' = term
       /\ \E tasks \in filter_tasks(db, status_filter_var, term) :
            tasks_tree' = populate_tasks_tree(tasks)
  /\ UNCHANGED <<export_vars, import_message, db, clock, status_filter_var,
                 import_queue, importing, task_ids_returned, project_ids_returned>>

\* The Refresh button, F5 (refresh_all) and the end of edit_task: refresh_tasks
Refresh ==
  /\ ~importing
  /\ refresh_tasks(db)
  /\ UNCHANGED <<export_vars, import_message, db, clock, status_filter_var,
                 search_var, import_queue, importing, task_ids_returned,
                 project_ids_returned>>

\* An import_data that walks the projects of the document from the last to the first
import_records_projects_reversed(data) ==
  LET projects == IF "projects" \in DOMAIN data THEN data.projects ELSE <<>>
      tasks == IF "tasks" \in DOMAIN data THEN data.tasks ELSE <<>>
  IN [i \in 1..Len(projects) |->
        [kind |-> "project", rec |-> projects[Len(projects) + 1 - i]]]
     \o [i \in 1..Len(tasks) |-> [kind |-> "task", rec |-> tasks[i]]]

\* import_data, lines 913-926: json.load, then the records in the order of the
\* two loops, projects first
import_records(data) ==
  LET projects == IF "projects" \in DOMAIN data THEN data.projects ELSE <<>>
      tasks == IF "tasks" \in DOMAIN data THEN data.tasks ELSE <<>>
  IN [i \in 1..Len(projects) |-> [kind |-> "project", rec |-> projects[i]]]
     \o [i \in 1..Len(tasks) |-> [kind |-> "task", rec |-> tasks[i]]]

count_kind(records, kind) ==
  Cardinality({i \in 1..Len(records) : records[i].kind = kind})

\* import_data up to the loops, on the document json.load returns; a file it
\* cannot read (None) raises at once and the except clause shows the error
import_data_load(doc, cap) ==
  IF doc = None
  THEN /\ import_message' = Some("showerror")
       /\ UNCHANGED <<db, clock, tasks_tree, status_filter_var, search_var,
                      import_queue, importing, task_ids_returned,
                      project_ids_returned, export_vars>>
  ELSE /\ db.seq_tasks + count_kind(import_records(Val(doc)), "task") <= MaxTasks
       /\ db.seq_projects + count_kind(import_records(Val(doc)), "project")
            <= cap
       /\ import_queue' = import_records(Val(doc))
       /\ importing' = TRUE
       /\ import_message' = None
       /\ UNCHANGED <<db, clock, tasks_tree, status_filter_var, search_var,
                      task_ids_returned, project_ids_returned, export_vars>>

\* import_data on a file the user has written
import_data_begin ==
  /\ ~importing
  /\ \E doc \in Documents : import_data_load(doc, MaxProjects)

\* An import_data that catches the exception inside its loops and goes on with
\* the next record
import_data_step_skips_record ==
  /\ importing
  /\ import_queue # <<>>
  /\ LET rec == Head(import_queue).rec
         r == IF Head(import_queue).kind = "project"
              THEN IF "name" \notin DOMAIN rec
                   THEN [db |-> db, lastrowid |-> None, raised |-> TRUE]
                   ELSE add_project(db, rec.name, Get(rec, "description", Some(<<>>)),
                                    Get(rec, "due_date", None), clock)
              ELSE IF "title" \notin DOMAIN rec
                   THEN [db |-> db, lastrowid |-> None, raised |-> TRUE]
                   ELSE add_task(db, rec.title, Get(rec, "description", Some(<<>>)),
                                 Get(rec, "category", Some(<<>>)),
                                 Get(rec, "project_id", None),
                                 Get(rec, "due_date", None),
                                 Get(rec, "priority", Some("medium")), clock)
     IN /\ db' = r.db
        /\ import_queue' = Tail(import_queue)
        /\ task_ids_returned' =
             IF ~r.raised /\ Head(import_queue).kind = "task"
             THEN Append(task_ids_returned, Val(r.lastrowid)) ELSE task_ids_returned
        /\ project_ids_returned' =
             IF ~r.raised /\ Head(import_queue).kind = "project"
             THEN Append(project_ids_returned, Val(r.lastrowid))
             ELSE project_ids_returned
  /\ UNCHANGED <<clock, tasks_tree, status_filter_var, search_var, importing,
                 import_message, export_vars>>

\* One pass of a loop of import_data: add_project or add_task on the next record.
\* A KeyError (no 'name', no 'title') or an IntegrityError ends import_data in
\* its except clause: showerror, without refresh_all.
import_data_step ==
  /\ importing
  /\ import_queue # <<>>
  /\ LET rec == Head(import_queue).rec
         r == IF Head(import_queue).kind = "project"
              THEN IF "name" \notin DOMAIN rec
                   THEN [db |-> db, lastrowid |-> None, raised |-> TRUE]
                   ELSE add_project(db, rec.name, Get(rec, "description", Some(T_empty)),
                                    Get(rec, "due_date", None), clock)
              ELSE IF "title" \notin DOMAIN rec
                   THEN [db |-> db, lastrowid |-> None, raised |-> TRUE]
                   ELSE add_task(db, rec.title, Get(rec, "description", Some(T_empty)),
                                 Get(rec, "category", Some(T_empty)),
                                 Get(rec, "project_id", None),
                                 Get(rec, "due_date", None),
                                 Get(rec, "priority", Some("medium")), clock)
     IN /\ db' = r.db
        /\ import_queue' = IF r.raised THEN <<>> ELSE Tail(import_queue)
        /\ importing' = ~r.raised
        /\ import_message' = IF r.raised THEN Some("showerror") ELSE import_message
        /\ task_ids_returned' =
             IF ~r.raised /\ Head(import_queue).kind = "task"
             THEN Append(task_ids_returned, Val(r.lastrowid)) ELSE task_ids_returned
        /\ project_ids_returned' =
             IF ~r.raised /\ Head(import_queue).kind = "project"
             THEN Append(project_ids_returned, Val(r.lastrowid))
             ELSE project_ids_returned
  /\ UNCHANGED <<clock, tasks_tree, status_filter_var, search_var, export_vars>>

\* import_data after the loops: refresh_all, then showinfo
import_data_end ==
  /\ importing
  /\ import_queue = <<>>
  /\ importing' = FALSE
  /\ import_message' = Some("showinfo")
  /\ refresh_tasks(db)
  /\ UNCHANGED <<db, clock, status_filter_var, search_var, import_queue,
                 task_ids_returned, project_ids_returned, export_vars>>

\* An export that leaves the projects out of the document
json_document_without_projects(tasks, projects, now) ==
  [tasks |-> tasks, exported_at |-> now]

\* json.dump of the dict export_data builds; json.load gives the same dict back
\* (text, integers and null only)
json_document(tasks, projects, now) ==
  [tasks |-> tasks, projects |-> projects, exported_at |-> now]

\* export_data: get_tasks(), get_projects() and the time, written to the file
export_data ==
  /\ ~importing
  /\ \E tasks \in get_tasks(db, None, None), projects \in get_projects(db) :
       export_file' = Some(json_document(tasks, projects, clock))
  /\ exported_db' = db
  /\ UNCHANGED <<db, clock, tasks_tree, status_filter_var, search_var, import_queue,
                 importing, task_ids_returned, project_ids_returned,
                 import_message, db_path>>

\* The program is started where no productivity_app.db exists yet:
\* ProductivityApp.__init__ and init_database on a new file
start_on_new_database ==
  /\ ~importing
  /\ db_path = OriginalPath
  /\ db_path' = OtherPath
  /\ db' = init_database
  /\ tasks_tree' = <<>>
  /\ status_filter_var' = "All"
  /\ search_var' = <<>>
  /\ task_ids_returned' = <<>>
  /\ project_ids_returned' = <<>>
  /\ import_message' = None
  /\ UNCHANGED <<clock, import_queue, importing, export_file, exported_db>>

\* import_data on the file export_data has written
import_exported_file ==
  /\ ~importing
  /\ export_file # None
  /\ import_data_load(export_file, MaxExportProjects)

Next ==
  \/ Tick
  \/ App_add_task
  \/ App_delete_task
  \/ App_change_task_status
  \/ App_add_project
  \/ view_project_tasks
  \/ SelectStatusFilter
  \/ TypeSearch
  \/ Refresh
  \/ import_data_begin
  \/ import_data_step
  \/ import_data_end

Spec == Init /\ [][Next]_vars

\* The user fills a store, exports it, starts the program on a new database file
\* and imports the exported file there.
NextExport ==
  \/ Tick
  \/ export_file = None /\ App_add_task
  \/ export_file = None /\ App_change_task_status
  \/ export_file = None /\ add_project_dialog(MaxExportProjects)
  \/ export_file = None /\ import_data_begin
  \/ import_data_step
  \/ import_data_end
  \/ export_file = None /\ export_data
  \/ export_file # None /\ start_on_new_database
  \/ db_path = OtherPath /\ db = init_database /\ import_exported_file

SpecExport == Init /\ [][NextExport]_vars

---------------------------------------------------------------------------
\* Properties

NoRepeats(s) == \A i, j \in 1..Len(s) : i # j => s[i] # s[j]

\* C1: every stored task has a completed_date exactly when its status is completed.
C1_CompletedDateIffCompleted ==
  \A t \in db.tasks : (t.completed_date # None) <=> (t.status = "completed")

\* A task was completed and another was moved on by a status change and holds no date.
C1_Witness ==
  \E t, u \in db.tasks :
    /\ t.status = "completed" /\ t.completed_date # None
    /\ u.status = "in_progress" /\ u.completed_date = None

Range(s) == {s[i] : i \in 1..Len(s)}

\* Arguments of add_task with a non-empty title, a project that exists or not
ValidTaskInputs ==
  { [title |-> Some(ti), description |-> b.description, category |-> b.category,
     project_id |-> pid, due_date |-> b.due_date, priority |-> b.priority]
    : ti \in {T_Ab, T_x},
      pid \in {None, Some(1), Some(MaxProjects + 1)},
      b \in { [description |-> Some(T_empty), category |-> Some(T_B),
               due_date |-> None, priority |-> Some("medium")],
              [description |-> Some(T_a), category |-> Some(T_empty),
               due_date |-> Some("2025-01-31"), priority |-> Some("low")] } }

add_task_with(d, a) ==
  add_task(d, a.title, a.description, a.category, a.project_id, a.due_date,
           a.priority, clock)

\* C3: for every valid input, get_tasks() after add_task holds every record it held
\* before and exactly one more, which carries the given title, description,
\* category, project_id, due_date and priority, the returned id, status todo and
\* no completed_date.
C3_CreateThenList ==
  \A a \in ValidTaskInputs :
    LET r == add_task_with(db, a)
    IN /\ ~r.raised
       /\ \A before \in get_tasks(db, None, None), after \in get_tasks(r.db, None, None) :
            LET new == Range(after) \ Range(before)
            IN /\ Len(after) = Len(before) + 1
               /\ Range(before) \subseteq Range(after)
               /\ Cardinality(new) = 1
               /\ \A x \in new :
                    /\ x.id = Val(r.lastrowid)
                    /\ x.title = a.title
                    /\ x.description = a.description
                    /\ x.category = a.category
                    /\ x.project_id = a.project_id
                    /\ x.due_date = a.due_date
                    /\ x.priority = a.priority
                    /\ x.status = "todo"
                    /\ x.completed_date = None

\* The task dialog has stored a task of an existing project beside an older task,
\* and the refreshed tree lists both.
C3_Witness ==
  \E t, u \in db.tasks :
    /\ t.id > u.id
    /\ t.title = Some(T_x) /\ t.description = Some(T_a) /\ t.category = Some(T_B)
    /\ t.project_id # None /\ t.due_date = Some("2025-01-31")
    /\ t.status = "todo" /\ t.completed_date = None
    /\ {t.id, u.id} \subseteq tree_ids

\* C4: no task with an empty title and no project with an empty name is ever
\* written, whichever path reaches the store.
C4_EmptyNamesNeverStored ==
  /\ \A t \in db.tasks : t.title # Some(T_empty)
  /\ \A p \in db.projects : p.name # Some(T_empty)

TaskWithId(d, id) == {t \in d.tasks : t.id = id}

\* C5: update_task_status(id, s) on a stored task leaves it with status s, and with
\* completed_date the current time if s is completed and none otherwise; completing
\* a task and then setting it to todo leaves it todo with no completed_date, and
\* leaves the store as it was if the task was todo before.
C5_UpdateStatus ==
  \A t \in db.tasks :
    /\ \A s \in Statuses :
         \A u \in TaskWithId(update_task_status(db, t.id, s, clock), t.id) :
           /\ u.status = s
           /\ u.completed_date = IF s = "completed" THEN Some(clock) ELSE None
    /\ \A later \in clock..MaxClock :
         LET d1 == update_task_status(db, t.id, "completed", clock)
             d2 == update_task_status(d1, t.id, "todo", later)
         IN /\ \A u \in TaskWithId(d1, t.id) : u.completed_date # None
            /\ TaskWithId(d2, t.id) # {}
            /\ \A u \in TaskWithId(d2, t.id) :
                 u.status = "todo" /\ u.completed_date = None
            /\ t.status = "todo" => d2 = db

\* A task was completed in a later second than the one it was created in, and
\* another was set back to todo or never left it.
C5_Witness ==
  \E t, u \in db.tasks :
    /\ t.status = "completed"
    /\ t.completed_date # None /\ Val(t.completed_date) > t.created_date
    /\ u.status = "todo"

\* The stored tasks a result lists
TasksOf(result) == {t \in db.tasks : \E r \in Range(result) : r = task_row(t, r.project_name)}

\* C6: for each of the three statuses get_tasks(status) returns the stored tasks of
\* that status, each once, and no others; get_tasks() returns every stored task,
\* each once, which is the union of the three.
C6_StatusFilter ==
  /\ \A S \in Statuses :
       /\ get_tasks(db, Some(S), None) # {}
       /\ \A result \in get_tasks(db, Some(S), None) :
            /\ TasksOf(result) = {t \in db.tasks : t.status = S}
            /\ Len(result) = Cardinality({t \in db.tasks : t.status = S})
  /\ get_tasks(db, None, None) # {}
  /\ \A result \in get_tasks(db, None, None) :
       /\ TasksOf(result) = db.tasks
       /\ Len(result) = Cardinality(db.tasks)
       /\ \A todo \in get_tasks(db, Some("todo"), None),
             in_progress \in get_tasks(db, Some("in_progress"), None),
             completed \in get_tasks(db, Some("completed"), None) :
            TasksOf(result) = TasksOf(todo) \cup TasksOf(in_progress) \cup TasksOf(completed)

\* The status combobox stands on completed, the tree lists the completed task and
\* not the stored task of another status, which belongs to no project.
C6_Witness ==
  /\ status_filter_var = "completed"
  /\ search_var = <<>>
  /\ tasks_tree # <<>>
  /\ \E t \in db.tasks :
       t.status # "completed" /\ t.project_id = None /\ t.id \notin tree_ids

\* C7: in every result of get_tasks and of get_projects, a record created after
\* another (it holds the larger id) comes before it.
C7_MostRecentFirst ==
  /\ \A result \in get_tasks(db, None, None) :
       \A i, j \in 1..Len(result) :
         result[i].id > result[j].id => i < j
  /\ \A result \in get_projects(db) :
       \A i, j \in 1..Len(result) : result[i].id > result[j].id => i < j

ProjectRow(result, id) == {p \in Range(result) : p.id = id}

\* C8: after delete_task(id) of a stored task no get_tasks result, under any status
\* and project filter, holds the task, and get_projects reports for its project one
\* task less, and one completed task less if it was completed.
C8_DeleteTask ==
  \A t \in db.tasks :
    LET d2 == delete_task(db, t.id)
    IN /\ \A status \in {None} \cup {Some(S) : S \in Statuses},
             project_id \in {None} \cup {Some(p.id) : p \in db.projects} :
            \A result \in get_tasks(d2, status, project_id) :
              \A r \in Range(result) : r.id # t.id
       /\ \A before \in get_projects(db), after \in get_projects(d2) :
            \A b \in Range(before) :
              t.project_id = Some(b.id) =>
                /\ ProjectRow(after, b.id) # {}
                /\ \A a \in ProjectRow(after, b.id) :
                     /\ a.total_tasks = b.total_tasks - 1
                     /\ a.completed_tasks =
                          b.completed_tasks - (IF t.status = "completed" THEN 1 ELSE 0)

\* A task was deleted before, and a completed task of an existing project is
\* shown in the tree, ready to be deleted.
C8_Witness ==
  /\ \E i \in 1..Len(task_ids_returned) :
       task_ids_returned[i] \notin {t.id : t \in db.tasks}
  /\ \E t \in db.tasks, p \in db.projects :
       /\ t.project_id = Some(p.id)
       /\ t.status = "completed"
       /\ t.id \in tree_ids

\* C9: every project of get_projects has completed_tasks <= total_tasks, total_tasks
\* the number of stored tasks with its id as project_id, completed_tasks the number
\* of those that are completed; every project is listed once.
C9_ProjectCounts ==
  /\ get_projects(db) # {}
  /\ \A result \in get_projects(db) :
       /\ {p.id : p \in Range(result)} = {p.id : p \in db.projects}
       /\ Len(result) = Cardinality(db.projects)
       /\ \A p \in Range(result) :
            LET mine == {t \in db.tasks : t.project_id = Some(p.id)}
            IN /\ p.completed_tasks <= p.total_tasks
               /\ p.total_tasks = Cardinality(mine)
               /\ p.completed_tasks =
                    Cardinality({t \in mine : t.status = "completed"})

\* A project holds two tasks, one of them completed.
C9_Witness ==
  \E p \in db.projects :
    /\ Cardinality({t \in db.tasks : t.project_id = Some(p.id)}) = 2
    /\ Cardinality({t \in db.tasks :
                      t.project_id = Some(p.id) /\ t.status = "completed"}) = 1

\* The term appears in the text, letter case ignored
AppearsIn(term, text) ==
  \E offset \in 0..(Len(text) - Len(term)) :
    \A k \in 1..Len(term) : LowerChar(term[k]) = LowerChar(text[offset + k])

TermAppears(term, t) ==
  \/ AppearsIn(term, Val(t.title))
  \/ t.description # None /\ AppearsIn(term, Val(t.description))
  \/ t.category # None /\ AppearsIn(term, Val(t.category))

C10_Terms == SearchTerms \cup {<<"a", "B">>, <<"z">>, <<"X">>}

RECURSIVE SumOf(_)
SumOf(f) ==
  IF DOMAIN f = {} THEN 0
  ELSE LET k == CHOOSE x \in DOMAIN f : TRUE
       IN f[k] + SumOf([x \in DOMAIN f \ {k} |-> f[x]])

\* C11: the category dict of get_task_statistics has no entry for the empty text or
\* for NULL, holds for every other category the number of stored tasks that have it,
\* and its counts add up to the number of stored tasks with a non-empty category.
C11_CategoryStatistics ==
  LET category == get_task_statistics(db).category
      named == {t \in db.tasks : t.category # None /\ Val(t.category) # <<>>}
  IN /\ None \notin DOMAIN category
     /\ Some(T_empty) \notin DOMAIN category
     /\ DOMAIN category = {t.category : t \in named}
     /\ \A c \in DOMAIN category :
          category[c] = Cardinality({t \in db.tasks : t.category = c})
     /\ SumOf(category) = Cardinality(named)

\* The store holds a task with a category and one whose category is NULL, and the
\* dict has the one entry.
C11_Witness ==
  /\ \E t \in db.tasks : t.category = Some(T_B)
  /\ \E t \in db.tasks : t.category = None
  /\ get_task_statistics(db).category = [c \in {Some(T_B)} |-> 1]

\* import_data has run to its end on the database file the program was started
\* on after the export
ImportedIntoEmptyStore == db_path = OtherPath /\ import_message = Some("showinfo")

\* C12: the import of an exported document into an empty store does not fail, and
\* when it has ended the store holds as many tasks and as many projects as the
\* exported store.
C12_RoundTripCounts ==
  /\ db_path = OtherPath => import_message # Some("showerror")
  /\ ImportedIntoEmptyStore =>
       /\ Cardinality(db.tasks) = Cardinality(exported_db.tasks)
       /\ Cardinality(db.projects) = Cardinality(exported_db.projects)

\* A store of two tasks and two projects has been exported and imported.
C12_Witness ==
  /\ ImportedIntoEmptyStore
  /\ Cardinality(exported_db.tasks) = 2
  /\ Cardinality(exported_db.projects) = 2
  /\ Cardinality(db.tasks) = 2
  /\ Cardinality(db.projects) = 2

\* A record import_data cannot insert: it has no name/title, or a null one
Malformed(r) ==
  LET key == IF r.kind = "project" THEN "name" ELSE "title"
  IN key \notin DOMAIN r.rec \/ r.rec[key] = None

\* What one pass of a loop of import_data does to the store
C13_ImportStep ==
  (importing /\ import_queue' # import_queue) =>
    /\ db.tasks \subseteq db'.tasks
    /\ db.projects \subseteq db'.projects
    /\ importing' \/ Malformed(Head(import_queue))
    /\ importing' =>
         /\ ~Malformed(Head(import_queue))
         /\ import_queue' = Tail(import_queue)
         /\ Head(import_queue).kind = "task" =>
              /\ db'.projects = db.projects
              /\ \E t \in db'.tasks :
                   /\ db'.tasks = db.tasks \cup {t}
                   /\ t.id \notin {u.id : u \in db.tasks} \cup Range(task_ids_returned)
         /\ Head(import_queue).kind = "project" =>
              /\ db'.tasks = db.tasks
              /\ \E p \in db'.projects :
                   /\ db'.projects = db.projects \cup {p}
                   /\ p.id \notin {q.id : q \in db.projects}
                                 \cup Range(project_ids_returned)

\* import_data touches the store in the passes of its loops only, starts them on
\* all the records of the document and reports success only when none is left
C13_ImportFrame ==
  /\ (~importing /\ importing') =>
       /\ db' = db
       /\ \E doc \in Documents \ {None} : import_queue' = import_records(Val(doc))
  /\ (importing /\ import_queue' = import_queue) => db' = db
  /\ (importing /\ import_message' = Some("showinfo")) => import_queue = <<>>

\* C13: import only adds rows.  Every pass of import_data keeps every stored row as
\* it is; on a record that has its name or title it adds exactly one row, to the
\* table of the record's kind, under an id never given before, whatever rows are
\* stored already; the passes run over every record of the document.
C13_AdditiveMerge == [][C13_ImportStep /\ C13_ImportFrame]_vars

\* import_data has just inserted its last record, a task, and the store held a
\* task already that agrees with the new row in every column but the id.
C13_Witness ==
  /\ importing
  /\ import_queue = <<>>
  /\ \E t, u \in db.tasks :
       /\ t.id < u.id
       /\ u.id = db.seq_tasks
       /\ u.id = task_ids_returned[Len(task_ids_returned)]
       /\ u = [t EXCEPT !.id = u.id]

\* Ids that match no stored task: never given, or given to a task deleted since
UnknownTaskIds == (0..(MaxTasks + 1)) \ {t.id : t \in db.tasks}

\* C14: update_task_status on an id that matches no stored task leaves the store
\* as it is, tasks, projects and id counters.
C14_UpdateUnknownId ==
  \A task_id \in UnknownTaskIds : \A status \in Statuses :
    update_task_status(db, task_id, status, clock) = db

\* The store holds a task, a project, and the id of a deleted task is unknown to it.
C14_Witness ==
  /\ db.tasks # {}
  /\ db.projects # {}
  /\ \E task_id \in UnknownTaskIds : task_id \in Range(task_ids_returned)
  /\ \A task_id \in UnknownTaskIds :
       update_task_status(db, task_id, "completed", clock) = db

\* The project_id of t is set and matches no stored project
Dangling(t) == t.project_id # None /\ \A p \in db.projects : p.id # Val(t.project_id)

\* C15: a task whose project_id matches no project has exactly one row in every
\* result of get_tasks(), and in every result of get_tasks with its status, with
\* project_name NULL, and its tree row shows the empty text as the project.
C15_DanglingProjectTolerated ==
  \A t \in db.tasks :
    Dangling(t) =>
      \A result \in get_tasks(db, None, None) \cup get_tasks(db, Some(t.status), None) :
        /\ Cardinality({i \in 1..Len(result) : result[i].id = t.id}) = 1
        /\ \A i \in 1..Len(result) :
             result[i].id = t.id =>
               /\ result[i] = task_row(t, None)
               /\ tree_values(result[i]).project_name = T_empty

\* A stored task names project 1, no such project is stored, and the tree shows
\* the task.
C15_Witness ==
  \E t \in db.tasks :
    /\ Dangling(t)
    /\ t.project_id = Some(1)
    /\ t.id \in tree_ids

\* import_data on a file json.load cannot read
C16_ReadFailure ==
  (~importing /\ ~importing' /\ import_message' # import_message) =>
    /\ import_message' = Some("showerror")
    /\ db' = db
    /\ import_queue' = <<>>

\* A pass of import_data on a record it cannot insert
C16_FailedRecord ==
  (importing /\ import_queue # <<>> /\ import_queue' # import_queue
     /\ Malformed(Head(import_queue))) =>
    /\ import_message' = Some("showerror")
    /\ ~importing'
    /\ import_queue' = <<>>
    /\ db' = db
    /\ tasks_tree' = tasks_tree

\* C16: an import_data that cannot read its file, or meets a record it cannot
\* insert, shows an error and ends: the records left are dropped, none is inserted
\* after the error, and the store stays as the passes before the failure left it.
C16_ImportAborts ==
  /\ [](import_message = Some("showerror") => ~importing /\ import_queue = <<>>)
  /\ [][C16_ReadFailure /\ C16_FailedRecord]_vars

\* import_data has shown an error after inserting the first record of a document
\* whose second record has no title: the first row is stored.
C16_Witness ==
  /\ import_message = Some("showerror")
  /\ \E t \in db.tasks :
       /\ t.title = Some(T_Ab) /\ t.category = None /\ t.priority = Some("high")
       /\ t.id = db.seq_tasks
       /\ t.id \notin tree_ids

\* A row that enters the tasks table has status todo
C17_NewTaskIsTodo ==
  \A t \in db'.tasks :
    t.id \notin {u.id : u \in db.tasks} => t.status = "todo"

\* C17: the status of every stored task is todo, in_progress or completed, and
\* every task enters the table with status todo.
C17_StatusDomain ==
  /\ [](\A t \in db.tasks : t.status \in {"todo", "in_progress", "completed"})
  /\ [][C17_NewTaskIsTodo]_vars

\* A task was moved to in_progress and a task created after it is todo.
C17_Witness ==
  \E t, u \in db.tasks :
    /\ t.id < u.id
    /\ t.status = "in_progress"
    /\ u.status = "todo"

\* update_task_status(task_id, status) on the store: the task with that id differs
\* in status and completed_date at most, nothing else differs
C18_UpdateFrame(task_id, status) ==
  LET d == update_task_status(db, task_id, status, clock)
  IN /\ d.projects = db.projects
     /\ d.seq_tasks = db.seq_tasks /\ d.seq_projects = db.seq_projects
     /\ Cardinality(d.tasks) = Cardinality(db.tasks)
     /\ \A t \in db.tasks :
          IF t.id = task_id
          THEN \E u \in d.tasks :
                 /\ u.status = status
                 /\ [u EXCEPT !.status = t.status,
                              !.completed_date = t.completed_date] = t
          ELSE t \in d.tasks

\* delete_task(task_id) on the store: that task is gone, nothing else differs
C18_DeleteFrame(task_id) ==
  LET d == delete_task(db, task_id)
  IN /\ d.projects = db.projects
     /\ d.seq_tasks = db.seq_tasks /\ d.seq_projects = db.seq_projects
     /\ d.tasks = {t \in db.tasks : t.id # task_id}

\* No step of the program changes the created_date of a stored task
C18_CreatedDateKept ==
  \A t \in db.tasks : \A u \in db'.tasks :
    u.id = t.id => u.created_date = t.created_date

\* C18: a stored task keeps its id and created_date in every step; on every
\* reachable store update_task_status changes the status and completed_date of the
\* task with the id and nothing else, and delete_task removes the task with the id
\* and nothing else.
C18_Frames ==
  /\ [](\A task_id \in 0..(MaxTasks + 1) :
         /\ C18_DeleteFrame(task_id)
         /\ \A status \in Statuses : C18_UpdateFrame(task_id, status))
  /\ [][C18_CreatedDateKept]_vars

\* Two tasks and a project are stored; one task, created at second 0, was
\* completed at second 1, the other is as it was created.
C18_Witness ==
  /\ db.projects # {}
  /\ \E t, u \in db.tasks :
       /\ t.id # u.id
       /\ t.created_date = 0 /\ t.status = "completed" /\ t.completed_date = Some(1)
       /\ u.status = "todo" /\ u.completed_date = None
  /\ clock = 1

\* The records of the exported document
exported_tasks == Val(export_file).tasks
exported_projects == Val(export_file).projects

\* The import into the empty store gives the i-th task record of the document the
\* id i: every result of get_tasks() resolves that task to the project name the
\* record was exported with
LinkageKept ==
  \A result \in get_tasks(db, None, None) :
    \A i \in 1..Len(exported_tasks) : \A k \in 1..Len(result) :
      result[k].id = i => result[k].project_name = exported_tasks[i].project_name

\* The document lists the projects in the order of their ids
ExportedInIdOrder ==
  \A k \in 1..Len(exported_projects) : exported_projects[k].id = k

\* C19, as claimed: after export and import into an empty store every task
\* resolves to the project name it was exported with, for every store with two or
\* more projects.
C19_LinkageKeptTwoProjects ==
  (ImportedIntoEmptyStore /\ Cardinality(exported_db.projects) >= 2) => LinkageKept

\* C19, amended: after export and import into an empty store every task resolves
\* to the project name it was exported with when the document lists the projects
\* in the order of their ids; so it does for every store with at most one project.
C19_LinkageKeptInIdOrder ==
  /\ (ImportedIntoEmptyStore /\ ExportedInIdOrder) => LinkageKept
  /\ (ImportedIntoEmptyStore /\ Cardinality(exported_db.projects) <= 1) =>
       ExportedInIdOrder

\* Two projects created in the same second were exported in the order of their
\* ids; a task of the project named P was imported and resolves to P again.
C19_Witness ==
  /\ ImportedIntoEmptyStore
  /\ ExportedInIdOrder
  /\ Cardinality(exported_db.projects) = 2
  /\ \E i \in 1..Len(exported_tasks) :
       /\ exported_tasks[i].project_name = Some(<<"P">>)
       /\ \E result \in get_tasks(db, None, None) : \E k \in 1..Len(result) :
            result[k].id = i /\ result[k].project_name = Some(<<"P">>)

\* A pass of import_data that inserts a task stores it as todo, not completed
C20_ImportedTaskIsTodo ==
  (importing /\ import_queue' # import_queue) =>
    \A t \in db'.tasks \ db.tasks : t.status = "todo" /\ t.completed_date = None

\* After export and import into an empty store, the task of the i-th record has
\* the status of the record exactly when the record says todo
C20_RoundTripStatus ==
  ImportedIntoEmptyStore =>
    \A i \in 1..Len(exported_tasks) : \E t \in db.tasks :
      /\ t.id = i
      /\ t.title = exported_tasks[i].title
      /\ t.completed_date = None
      /\ (t.status = exported_tasks[i].status) <=> (exported_tasks[i].status = "todo")

\* C20: every task import_data inserts is stored with status todo and
\* completed_date NULL, whatever the record says; after export and import into an
\* empty store a task has the status it was exported with only if that was todo.
C20_ImportResetsStatus ==
  /\ []C20_RoundTripStatus
  /\ [][C20_ImportedTaskIsTodo]_vars

\* A task exported as completed, with its completed_date, has been imported into
\* the empty store and is todo there.
C20_Witness ==
  /\ ImportedIntoEmptyStore
  /\ \E i \in 1..Len(exported_tasks) : \E t \in db.tasks :
       /\ exported_tasks[i].status = "completed"
       /\ exported_tasks[i].completed_date # None
       /\ t.id = i
       /\ t.status = "todo"

====
